---- MODULE Spec2Model ----
(***************************************************************************)
(* State-machine model of the AudioRecorder widget                         *)
(* (src/components/expenses/AudioRecorder.tsx) and of uploadExpenseFile    *)
(* (src/services/api.ts).  Every event handler, promise continuation and   *)
(* effect of the component is one action.  The browser objects the         *)
(* component drives (MediaRecorder, MediaStream, the audio element, object *)
(* URLs, the canvas, the HTTP request) are part of the state.  What the    *)
(* environment will answer to a request (the HTTP outcome, the decode      *)
(* result, the play() result) is chosen when the request is made and       *)
(* travels with it until the continuation runs.                            *)
(***************************************************************************)
EXTENDS Integers, Sequences, FiniteSets, TLC

\* ------------------------------------------------------------------ bounds
MaxBlobs   == 2   \* captures (recorded or selected) created in one run
MaxUploads == 2   \* handleUpload invocations in one run
MaxQ       == 3   \* audio element events queued and not yet dispatched
MaxChunks  == 2   \* dataavailable events delivered to one recorder
MaxN       == 3   \* decoded samples of a capture (envelope specification)
MaxW       == 2   \* canvas width in columns
Dur        == 1   \* clip duration in timeupdate ticks

\* ------------------------------------------------------- value domains
Expenses    == {"e1", "e2"}
ServerTexts == {"m1", "undefined"}   \* "undefined": the body carries no message
Samples     == -2 .. 2               \* amplitudes; 1 is full scale (1.0)
FileData    == {<<0, -1>>}           \* decoded content of a selected file

\* error messages set with setErrorMessage; NoMessage is null
Message(kind, text) == [kind |-> kind, text |-> text]
NoMessage == Message("null", "")

\* outcomes of the POST issued by uploadExpenseFile, plus the host callback
Outcome(kind, payload) == [kind |-> kind, payload |-> payload]
Outcomes ==
    {Outcome("ok", e) : e \in Expenses}              \* 2xx, data.expense = e
    \cup {Outcome("okThrow", e) : e \in Expenses}    \* 2xx, onUploadComplete throws
    \cup {Outcome("http422", "m1")}                  \* response, status 422
    \cup {Outcome("httpOther", t) : t \in ServerTexts} \* response, other status
    \cup {Outcome("noResponse", ""), Outcome("notSent", ""), Outcome("nonAxios", "")}

\* a Blob or File: identity, decoded samples, how it was obtained
Blob(id, data, origin) == [id |-> id, data |-> data, origin |-> origin]
NoBlob == Blob(0, <<>>, "null")

VARIABLES
    mounted,           \* the component is mounted
    isRecording, audioBlob, audioUrl, isPlaying, isLoading,
    errorMessage, audioSource, playbackPosition,      \* useState, lines 120-127
    mediaRecorderRef,  \* useRef, line 129: 0 or a recorder id
    recorders,         \* MediaRecorder objects: seq of [state, chunks], chunks being
                       \* audioChunks for as long as the recorder can use it
    streams,           \* ids of MediaStreams whose tracks are live
    gumPending,        \* getUserMedia promises not yet settled
    blobCount,         \* Blob/File objects created so far
    decodes,           \* visualizeAudio calls awaiting the decode: seq of [blob, ok]
    canvas,            \* what the canvas shows: [of, env]
    canvasWidth,       \* canvas.width
    elPaused, elTime,  \* audio element: paused attribute, currentTime
    evq,               \* audio element events queued for dispatch
    playRejects,       \* play() promises that will reject
    inflight,          \* POST requests not yet settled: seq of [blob, out]
    nUploads,          \* handleUpload invocations so far
    completed,         \* arguments of the onUploadComplete calls made, in order
    liveUrls,          \* object URLs created and not revoked
    urlCount,          \* object URLs created so far
    effBlob, effUrl,   \* blob id and url of the effect whose cleanup is registered
    toggleHist         \* the last (at most 2) toggles in a row: [before, quiet, rejected]

vars == <<mounted, isRecording, audioBlob, audioUrl, isPlaying, isLoading,
          errorMessage, audioSource, playbackPosition, mediaRecorderRef,
          recorders, streams, gumPending, blobCount, decodes, canvas, canvasWidth,
          elPaused, elTime, evq, playRejects, inflight, nUploads,
          completed, liveUrls, urlCount, effBlob, effUrl, toggleHist>>

\* groups of variables, for UNCHANGED
captureVars == <<audioBlob, audioSource, blobCount>>
recVars     == <<isRecording, mediaRecorderRef, recorders, streams, gumPending>>
vizVars     == <<decodes, canvas, canvasWidth>>
elVars      == <<elPaused, elTime, evq, playRejects>>
playVars    == <<isPlaying, playbackPosition>>
uploadVars  == <<isLoading, inflight, nUploads, completed>>
urlVars     == <<audioUrl, liveUrls, urlCount, effBlob, effUrl>>

BlankCanvas == [of |-> 0, env |-> <<>>]

\* state after the first render (useState/useRef initial values)
Init ==
    /\ mounted = TRUE
    /\ isRecording = FALSE /\ audioBlob = NoBlob /\ audioUrl = 0
    /\ isPlaying = FALSE /\ isLoading = FALSE
    /\ errorMessage = NoMessage /\ audioSource = "null" /\ playbackPosition = 0
    /\ mediaRecorderRef = 0 /\ recorders = <<>> /\ streams = {} /\ gumPending = 0
    /\ blobCount = 0 /\ decodes = <<>> /\ canvas = BlankCanvas
    /\ canvasWidth = MaxW
    /\ elPaused = TRUE /\ elTime = 0 /\ evq = <<>> /\ playRejects = 0
    /\ inflight = <<>> /\ nUploads = 0 /\ completed = <<>>
    /\ liveUrls = {} /\ urlCount = 0 /\ effBlob = 0 /\ effUrl = 0
    /\ toggleHist = <<>>

\* ------------------------------------------------- waveform envelope
FullScale == 1   \* 1.0: initial min is FullScale, initial max is -FullScale

\* mutant: the step rounded down
CeilFloor(n, w) == n \div w

\* Math.ceil(n / w), w >= 1
Ceil(n, w) == (n + w - 1) \div w

\* the inner loop, lines 251-255.  channelData[k] (0-based) past the end is
\* undefined, every comparison with undefined is false, and min and max keep
\* their values
RECURSIVE ScanSpan(_, _, _, _, _)
ScanSpan(data, base, j, step, mm) ==
    IF j >= step THEN mm
    ELSE LET k == base + j
             defined == k < Len(data)
             mn == IF defined /\ data[k + 1] < mm[1] THEN data[k + 1] ELSE mm[1]
             mx == IF defined /\ data[k + 1] > mm[2] THEN data[k + 1] ELSE mm[2]
         IN  ScanSpan(data, base, j + 1, step, <<mn, mx>>)

\* the W (min, max) pairs visualizeAudio draws, column i at index i + 1
Envelope(data, w) ==
    LET step == Ceil(Len(data), w)
    IN  [c \in 1 .. w |-> ScanSpan(data, (c - 1) * step, 0, step, <<FullScale, -FullScale>>)]

\* ----------------------------------------------------------- helpers
\* React runs a pending effect before it handles the next event
Quiescent == audioBlob.id = effBlob

\* captures that may still be created by what is already under way
Reserved == gumPending + Cardinality({r \in DOMAIN recorders : recorders[r].state # "inactive"})

RemoveAt(s, k) == [i \in 1 .. Len(s) - 1 |-> IF i < k THEN s[i] ELSE s[i + 1]]

\* mutant: the Blob is built from the last chunk only
ConcatLast(chunks) == IF chunks = <<>> THEN <<>> ELSE chunks[Len(chunks)]

RECURSIVE Concat(_)
Concat(chunks) == IF chunks = <<>> THEN <<>> ELSE Head(chunks) \o Concat(Tail(chunks))

\* the audio element runs its load algorithm when its src attribute changes:
\* it becomes paused without a pause event, rewinds, and drops its queued events
ElLoad == elPaused' = TRUE /\ elTime' = 0 /\ evq' = <<>>

\* ----------------------------------- useEffect on [audioBlob], lines 147-155
\* mutant: the effect returns no cleanup, so the old URL is never revoked
EffectCleanupLeaks ==
    /\ mounted /\ audioBlob.id # effBlob /\ effBlob # 0
    /\ effBlob' = 0 /\ effUrl' = 0
    /\ UNCHANGED <<mounted, captureVars, recVars, vizVars, elVars, playVars,
                   uploadVars, audioUrl, liveUrls, urlCount, errorMessage, toggleHist>>

\* cleanup of the previous run: URL.revokeObjectURL(url)
EffectCleanup ==
    /\ mounted /\ audioBlob.id # effBlob /\ effBlob # 0
    /\ liveUrls' = liveUrls \ {effUrl}
    /\ effBlob' = 0 /\ effUrl' = 0
    /\ UNCHANGED <<mounted, captureVars, recVars, vizVars, elVars, playVars,
                   uploadVars, audioUrl, urlCount, errorMessage, toggleHist>>

\* body of the effect for a non-null blob: createObjectURL, setAudioUrl
EffectRun ==
    /\ mounted /\ audioBlob.id # effBlob /\ effBlob = 0
    /\ urlCount' = urlCount + 1
    /\ liveUrls' = liveUrls \cup {urlCount + 1}
    /\ audioUrl' = urlCount + 1
    /\ effBlob' = audioBlob.id /\ effUrl' = urlCount + 1
    /\ ElLoad
    /\ toggleHist' = <<>>
    /\ UNCHANGED <<mounted, captureVars, recVars, vizVars, playVars, uploadVars,
                   playRejects, errorMessage>>

\* unmount: the cleanup of the last effect run is called.  State setters
\* called later change nothing, and the model follows the widget no further.
Unmount ==
    /\ mounted /\ Quiescent
    /\ mounted' = FALSE
    /\ liveUrls' = liveUrls \ {effUrl}
    /\ effUrl' = 0
    /\ evq' = <<>>
    /\ toggleHist' = <<>>
    /\ UNCHANGED <<captureVars, recVars, vizVars, playVars, uploadVars, audioUrl,
                   urlCount, effBlob, elPaused, elTime, playRejects, errorMessage>>

\* --------------------------------------- handleFileSelect, lines 214-221
handleFileSelect(d, ok) ==
    /\ mounted /\ Quiescent
    /\ audioBlob = NoBlob                  \* the file input is rendered, line 330
    /\ blobCount + Reserved < MaxBlobs
    /\ blobCount' = blobCount + 1
    /\ audioBlob' = Blob(blobCount + 1, d, "uploaded")
    /\ audioSource' = "uploaded"
    /\ decodes' = Append(decodes, [blob |-> Blob(blobCount + 1, d, "uploaded"), ok |-> ok])
    /\ toggleHist' = <<>>
    /\ UNCHANGED <<mounted, recVars, canvas, canvasWidth, elVars, playVars,
                   uploadVars, urlVars, errorMessage>>

\* ------------------------------------------- visualizeAudio, lines 223-261
\* what the continuation of a failed decode does: the promise of
\* visualizeAudio rejects and no caller handles it
DecodeFailed == UNCHANGED <<canvas, errorMessage>>

\* completion of the awaited decode of decodes[k]
visualizeAudio(k) ==
    /\ mounted /\ Quiescent
    /\ k \in 1 .. Len(decodes)
    /\ decodes' = RemoveAt(decodes, k)
    /\ IF decodes[k].ok
       THEN /\ canvas' = [of |-> decodes[k].blob.id,
                          env |-> Envelope(decodes[k].blob.data, canvasWidth)]
            /\ UNCHANGED errorMessage
       ELSE DecodeFailed
    /\ toggleHist' = <<>>
    /\ UNCHANGED <<mounted, captureVars, recVars, canvasWidth, elVars, playVars,
                   uploadVars, urlVars>>

\* mutant: resetAudio without setPlaybackPosition(0)
resetAudioKeepsPosition ==
    /\ mounted /\ Quiescent
    /\ audioBlob # NoBlob
    /\ audioBlob' = NoBlob /\ audioUrl' = 0 /\ audioSource' = "null"
    /\ isPlaying' = FALSE /\ canvas' = BlankCanvas
    /\ IF audioUrl # 0 THEN ElLoad
       ELSE /\ elTime' = 0
            /\ elPaused' = TRUE
            /\ evq' = IF elPaused THEN evq ELSE evq \o <<"timeupdate", "pause">>
    /\ toggleHist' = <<>>
    /\ UNCHANGED <<mounted, blobCount, recVars, decodes, canvasWidth, playRejects,
                   uploadVars, liveUrls, urlCount, effBlob, effUrl, errorMessage,
                   playbackPosition>>

\* ------------------------------------------------ resetAudio, lines 263-279
resetAudio ==
    /\ mounted /\ Quiescent
    /\ audioBlob # NoBlob                  \* the reset button is rendered, line 350
    /\ audioBlob' = NoBlob /\ audioUrl' = 0 /\ audioSource' = "null"
    /\ isPlaying' = FALSE /\ playbackPosition' = 0
    /\ canvas' = BlankCanvas
    /\ IF audioUrl # 0
       THEN ElLoad
       ELSE /\ elTime' = 0
            /\ elPaused' = TRUE
            /\ evq' = IF elPaused THEN evq ELSE evq \o <<"timeupdate", "pause">>
    /\ toggleHist' = <<>>
    /\ UNCHANGED <<mounted, blobCount, recVars, decodes, canvasWidth, playRejects,
                   uploadVars, liveUrls, urlCount, effBlob, effUrl, errorMessage>>

\* ----------------------------------------- startRecording, lines 157-182
\* the click: the handler runs up to the await of getUserMedia
startRecording ==
    /\ mounted /\ Quiescent
    /\ audioBlob = NoBlob /\ ~isRecording  \* the record button, lines 330-334
    /\ blobCount + Reserved < MaxBlobs
    /\ gumPending' = gumPending + 1
    /\ toggleHist' = <<>>
    /\ UNCHANGED <<mounted, captureVars, isRecording, mediaRecorderRef, recorders,
                   streams, vizVars, elVars, playVars, uploadVars, urlVars,
                   errorMessage>>

\* getUserMedia resolved: lines 160-177
startRecordingGranted ==
    /\ mounted /\ Quiescent
    /\ gumPending > 0
    /\ gumPending' = gumPending - 1
    /\ recorders' = Append(recorders, [state |-> "recording", chunks |-> <<>>])
    /\ streams' = streams \cup {Len(recorders) + 1}
    /\ mediaRecorderRef' = Len(recorders) + 1
    /\ isRecording' = TRUE
    /\ toggleHist' = <<>>
    /\ UNCHANGED <<mounted, captureVars, vizVars, elVars, playVars, uploadVars,
                   urlVars, errorMessage>>

\* mutant: setIsRecording(true) ahead of the await, never undone on failure
startRecordingDeniedRecording ==
    /\ mounted /\ Quiescent
    /\ gumPending > 0
    /\ gumPending' = gumPending - 1
    /\ errorMessage' = Message("microphone", "")
    /\ isRecording' = TRUE
    /\ toggleHist' = <<>>
    /\ UNCHANGED <<mounted, captureVars, mediaRecorderRef, recorders,
                   streams, vizVars, elVars, playVars, uploadVars, urlVars>>

\* getUserMedia rejected: lines 178-181
startRecordingDenied ==
    /\ mounted /\ Quiescent
    /\ gumPending > 0
    /\ gumPending' = gumPending - 1
    /\ errorMessage' = Message("microphone", "")
    /\ toggleHist' = <<>>
    /\ UNCHANGED <<mounted, captureVars, isRecording, mediaRecorderRef, recorders,
                   streams, vizVars, elVars, playVars, uploadVars, urlVars>>

\* ------------------------------------------ stopRecording, lines 184-189
\* MediaRecorder.stop() ends the recorder; nothing stops the stream's tracks
stopRecording ==
    /\ mounted /\ Quiescent
    /\ audioBlob = NoBlob /\ isRecording   \* the stop button, lines 330-334
    /\ IF mediaRecorderRef # 0 /\ isRecording
       THEN /\ recorders' = [recorders EXCEPT ![mediaRecorderRef].state =
                                IF @ = "recording" THEN "stopping" ELSE @]
            /\ isRecording' = FALSE
       ELSE UNCHANGED <<recorders, isRecording>>
    /\ toggleHist' = <<>>
    /\ UNCHANGED <<mounted, captureVars, mediaRecorderRef, streams, gumPending,
                   vizVars, elVars, playVars, uploadVars, urlVars, errorMessage>>

\* ondataavailable of recorder r, lines 164-166
\* the payload of the k-th dataavailable event of a recorder
ChunkData(k) == <<k - 1>>

ondataavailable(r) ==
    /\ mounted /\ Quiescent
    /\ r \in DOMAIN recorders
    /\ recorders[r].state = "stopping"
    /\ Len(recorders[r].chunks) < MaxChunks
    /\ recorders' = [recorders EXCEPT ![r].chunks = Append(@, ChunkData(Len(@) + 1))]
    /\ toggleHist' = <<>>
    /\ UNCHANGED <<mounted, captureVars, isRecording, mediaRecorderRef, streams,
                   gumPending, vizVars, elVars, playVars, uploadVars, urlVars,
                   errorMessage>>

\* onstop of recorder r, lines 168-174; ok is what its decode will give
onstop(r, ok) ==
    /\ mounted /\ Quiescent
    /\ r \in DOMAIN recorders
    /\ recorders[r].state = "stopping"
    /\ Len(recorders[r].chunks) >= 1
    /\ recorders' = [recorders EXCEPT ![r] = [state |-> "inactive", chunks |-> <<>>]]
    /\ blobCount' = blobCount + 1
    /\ audioBlob' = Blob(blobCount + 1, Concat(recorders[r].chunks), "recorded")
    /\ audioSource' = "recorded"
    /\ isRecording' = FALSE
    /\ decodes' = Append(decodes, [blob |-> Blob(blobCount + 1, Concat(recorders[r].chunks),
                                                 "recorded"), ok |-> ok])
    /\ toggleHist' = <<>>
    /\ UNCHANGED <<mounted, mediaRecorderRef, streams, gumPending, canvas,
                   canvasWidth, elVars, playVars, uploadVars, urlVars, errorMessage>>

\* ----------------------------------------- togglePlayback, lines 191-203
PlayOutcomes == {"ok", "rejected"}

\* mutant: setIsPlaying(true) whatever the state was
ToggledPlayingStuck == TRUE

\* line 201
ToggledPlaying == ~isPlaying

togglePlayback(outcome) ==
    /\ mounted /\ Quiescent
    /\ audioBlob # NoBlob                  \* the play button, line 347
    /\ IF isPlaying
       THEN \* pause(): a playing element pauses and announces it
            /\ outcome = "ok"
            /\ elPaused' = TRUE
            /\ evq' = IF elPaused THEN evq ELSE evq \o <<"timeupdate", "pause">>
            /\ UNCHANGED <<elTime, playRejects>>
       ELSE IF outcome = "ok"
       THEN \* play(): a paused element starts (from 0 if it had ended)
            /\ elPaused' = FALSE
            /\ elTime' = IF elPaused /\ elTime = Dur THEN 0 ELSE elTime
            /\ evq' = IF elPaused THEN Append(evq, "play") ELSE evq
            /\ UNCHANGED playRejects
       ELSE \* play() returns a promise that rejects; the element stays as it is
            /\ playRejects = 0
            /\ playRejects' = playRejects + 1
            /\ UNCHANGED <<elPaused, elTime, evq>>
    /\ Len(evq') <= MaxQ
    /\ isPlaying' = ToggledPlaying
    /\ toggleHist' = Append(IF Len(toggleHist) = 2 THEN Tail(toggleHist) ELSE toggleHist,
                            [before |-> isPlaying, quiet |-> evq = <<>>,
                             rejected |-> outcome = "rejected"])
    /\ UNCHANGED <<mounted, captureVars, recVars, vizVars, playbackPosition,
                   uploadVars, urlVars, errorMessage>>

\* the catch of play(), lines 196-199
playRejected ==
    /\ mounted /\ Quiescent
    /\ playRejects > 0
    /\ playRejects' = playRejects - 1
    /\ errorMessage' = Message("playback", "")
    /\ UNCHANGED <<mounted, captureVars, recVars, vizVars, elPaused, elTime, evq,
                   playVars, uploadVars, urlVars, toggleHist>>

\* playback advances by one tick; at the end of the clip the element pauses
\* and queues pause and ended
Tick ==
    /\ mounted /\ Quiescent
    /\ ~elPaused /\ audioUrl # 0 /\ elTime < Dur
    /\ \A i \in DOMAIN evq : evq[i] # "timeupdate"
    /\ Len(evq) + 3 <= MaxQ
    /\ elTime' = elTime + 1
    /\ elPaused' = (elTime + 1 = Dur)
    /\ evq' = evq \o (IF elTime + 1 = Dur THEN <<"timeupdate", "pause", "ended">>
                      ELSE <<"timeupdate">>)
    /\ UNCHANGED <<mounted, captureVars, recVars, vizVars, playRejects, playVars,
                   uploadVars, urlVars, errorMessage, toggleHist>>

\* updatePlaybackPosition, lines 205-212; the position is kept in 1/Dur pixels
updatePlaybackPosition == elTime * canvasWidth

\* mutant: the ended listener also rewinds the cursor
DispatchEventEndedRewinds ==
    /\ mounted /\ Quiescent
    /\ evq # <<>>
    /\ evq' = Tail(evq)
    /\ isPlaying' = CASE Head(evq) = "play" -> TRUE
                      [] Head(evq) \in {"pause", "ended"} -> FALSE
                      [] OTHER -> isPlaying
    /\ playbackPosition' = CASE Head(evq) = "timeupdate" -> updatePlaybackPosition
                              [] Head(evq) = "ended" -> 0
                              [] OTHER -> playbackPosition
    /\ toggleHist' = IF Head(evq) = "ended" THEN <<>> ELSE toggleHist
    /\ UNCHANGED <<mounted, captureVars, recVars, vizVars, elPaused, elTime,
                   playRejects, uploadVars, urlVars, errorMessage>>

\* dispatch of the first queued event of the audio element:
\* onPlay/onPause (lines 364-365), ended and timeupdate listeners (lines 136-137)
DispatchEvent ==
    /\ mounted /\ Quiescent
    /\ evq # <<>>
    /\ evq' = Tail(evq)
    /\ isPlaying' = CASE Head(evq) = "play" -> TRUE
                      [] Head(evq) \in {"pause", "ended"} -> FALSE
                      [] OTHER -> isPlaying
    /\ playbackPosition' = IF Head(evq) = "timeupdate" THEN updatePlaybackPosition
                           ELSE playbackPosition
    /\ toggleHist' = IF Head(evq) = "ended" THEN <<>> ELSE toggleHist
    /\ UNCHANGED <<mounted, captureVars, recVars, vizVars, elPaused, elTime,
                   playRejects, uploadVars, urlVars, errorMessage>>

\* ErrorModal onClose, line 369
closeError ==
    /\ mounted /\ Quiescent
    /\ errorMessage # NoMessage
    /\ errorMessage' = NoMessage
    /\ toggleHist' = <<>>
    /\ UNCHANGED <<mounted, captureVars, recVars, vizVars, elVars, playVars,
                   uploadVars, urlVars>>

\* -------------------------------------------- handleUpload, lines 281-314
\* mutant: the button is never disabled
SubmitNeverDisabled == FALSE

\* <SubmitButton disabled={isLoading}>, line 357
SubmitDisabled == isLoading

\* SubmitButton (components/common/SubmitButton): a native button that gets
\* the disabled prop and so delivers no click while it is disabled
SubmitButtonClickable(disabled) == ~disabled

\* uploadExpenseFile, api.ts: one POST of the file, no retry; out is the
\* outcome the request will settle with
uploadExpenseFile(file, out) == Append(inflight, [blob |-> file.id, out |-> out])

\* the click: lines 282-286, up to the await
handleUpload(out) ==
    /\ mounted /\ Quiescent
    /\ audioBlob # NoBlob                  \* the submit button, lines 356-357
    /\ SubmitButtonClickable(SubmitDisabled)
    /\ nUploads < MaxUploads
    /\ isLoading' = TRUE
    /\ inflight' = uploadExpenseFile(audioBlob, out)
    /\ nUploads' = nUploads + 1
    /\ toggleHist' = <<>>
    /\ UNCHANGED <<mounted, captureVars, recVars, vizVars, elVars, playVars,
                   completed, urlVars, errorMessage>>

IsSuccess(out) == out.kind \in {"ok", "okThrow"}

\* mutant: the callback also runs for a request that failed
CallbackArgsAlways(out) == <<out.payload>>

\* line 288: the arguments onUploadComplete is called with when the request
\* settles with out
CallbackArgs(out) == IF IsSuccess(out) THEN <<out.payload>> ELSE <<>>

\* mutant: no branch for status 422
ErrorForNo422(out) ==
    CASE out.kind \in {"http422", "httpOther"} -> Message("server", out.payload)
      [] out.kind = "noResponse" -> Message("connectivity", "")
      [] out.kind = "notSent"    -> Message("preparation", "")
      [] out.kind \in {"nonAxios", "okThrow"} -> Message("unexpected", "")
      [] OTHER -> errorMessage

\* the catch block, lines 289-309: the message set for a request that settled
\* with out (a throwing host callback is a non-Axios exception)
ErrorFor(out) ==
    CASE out.kind = "http422"    -> Message("unprocessable", "")
      [] out.kind = "httpOther"  -> Message("server", out.payload)
      [] out.kind = "noResponse" -> Message("connectivity", "")
      [] out.kind = "notSent"    -> Message("preparation", "")
      [] out.kind \in {"nonAxios", "okThrow"} -> Message("unexpected", "")
      [] OTHER -> errorMessage

\* mutant: a failed upload resets the capture
CaptureResetOnFailure(out) ==
    IF out.kind = "ok" THEN <<audioBlob, audioUrl, audioSource>> ELSE <<NoBlob, 0, "null">>

\* what the continuation does to the held capture: nothing
CaptureAfterUpload(out) == <<audioBlob, audioUrl, audioSource>>

\* mutant: setIsLoading(false) as the last statement of the try block instead
\* of the finally block
uploadSettledNoFinally(k) ==
    /\ mounted /\ Quiescent
    /\ k \in 1 .. Len(inflight)
    /\ inflight' = RemoveAt(inflight, k)
    /\ completed' = completed \o CallbackArgs(inflight[k].out)
    /\ errorMessage' = ErrorFor(inflight[k].out)
    /\ isLoading' = IF inflight[k].out.kind = "ok" THEN FALSE ELSE isLoading
    /\ audioBlob' = CaptureAfterUpload(inflight[k].out)[1]
    /\ audioUrl' = CaptureAfterUpload(inflight[k].out)[2]
    /\ audioSource' = CaptureAfterUpload(inflight[k].out)[3]
    /\ toggleHist' = <<>>
    /\ UNCHANGED <<mounted, blobCount, recVars, vizVars, elVars, playVars, nUploads,
                   liveUrls, urlCount, effBlob, effUrl>>

\* the continuation after the await: request k settles, lines 286-312
uploadSettled(k) ==
    /\ mounted /\ Quiescent
    /\ k \in 1 .. Len(inflight)
    /\ inflight' = RemoveAt(inflight, k)
    /\ completed' = completed \o CallbackArgs(inflight[k].out)
    /\ errorMessage' = ErrorFor(inflight[k].out)
    /\ isLoading' = FALSE
    /\ audioBlob' = CaptureAfterUpload(inflight[k].out)[1]
    /\ audioUrl' = CaptureAfterUpload(inflight[k].out)[2]
    /\ audioSource' = CaptureAfterUpload(inflight[k].out)[3]
    /\ toggleHist' = <<>>
    /\ UNCHANGED <<mounted, blobCount, recVars, vizVars, elVars, playVars, nUploads,
                   liveUrls, urlCount, effBlob, effUrl>>

\* ------------------------------------------------------- specification
\* selecting, showing and discarding a capture; mounting and unmounting
FileNext ==
    \/ EffectCleanup
    \/ EffectRun
    \/ Unmount
    \/ \E d \in FileData, ok \in BOOLEAN : handleFileSelect(d, ok)
    \/ \E k \in 1 .. MaxBlobs : visualizeAudio(k)
    \/ resetAudio
    \/ closeError

\* recording a capture
RecordNext ==
    \/ startRecording
    \/ startRecordingGranted
    \/ startRecordingDenied
    \/ stopRecording
    \/ \E r \in 1 .. MaxBlobs : ondataavailable(r)
    \/ \E r \in 1 .. MaxBlobs, ok \in BOOLEAN : onstop(r, ok)

\* playing the held capture
PlaybackNext ==
    \/ \E o \in PlayOutcomes : togglePlayback(o)
    \/ playRejected
    \/ Tick
    \/ DispatchEvent

\* submitting the held capture
UploadNext ==
    \/ \E out \in Outcomes : handleUpload(out)
    \/ \E k \in 1 .. MaxUploads : uploadSettled(k)

Next == FileNext \/ RecordNext \/ PlaybackNext \/ UploadNext

\* the whole widget
Spec == Init /\ [][Next]_vars

\* the widget with the playback and submit controls left alone
SpecCapture == Init /\ [][FileNext \/ RecordNext]_vars

\* the widget with the record and submit controls left alone
SpecPlayback == Init /\ [][FileNext \/ PlaybackNext]_vars

\* the widget with the record and playback controls left alone
SpecUpload == Init /\ [][FileNext \/ UploadNext]_vars

\* the envelope specification: a file with any samples has been selected,
\* its effect has run, and its decode is pending
SeqsUpTo(S, n) == UNION {[1 .. m -> S] : m \in 1 .. n}

InitViz ==
    /\ mounted = TRUE
    /\ isRecording = FALSE /\ audioUrl = 1
    /\ \E d \in SeqsUpTo(Samples, MaxN) :
          /\ audioBlob = Blob(1, d, "uploaded")
          /\ decodes = <<[blob |-> Blob(1, d, "uploaded"), ok |-> TRUE]>>
    /\ isPlaying = FALSE /\ isLoading = FALSE
    /\ errorMessage = NoMessage /\ audioSource = "uploaded" /\ playbackPosition = 0
    /\ mediaRecorderRef = 0 /\ recorders = <<>> /\ streams = {} /\ gumPending = 0
    /\ blobCount = 1 /\ canvas = BlankCanvas
    /\ canvasWidth \in 1 .. MaxW
    /\ elPaused = TRUE /\ elTime = 0 /\ evq = <<>> /\ playRejects = 0
    /\ inflight = <<>> /\ nUploads = 0 /\ completed = <<>>
    /\ liveUrls = {1} /\ urlCount = 1 /\ effBlob = 1 /\ effUrl = 1
    /\ toggleHist = <<>>

SpecViz == InitViz /\ [][\E k \in 1 .. MaxBlobs : visualizeAudio(k)]_vars

\* ================================================================ claims
\* request k settles in this step
Settles(k) == k \in 1 .. Len(inflight) /\ inflight' = RemoveAt(inflight, k)

\* C1: a request that settles with a 2xx response makes exactly one call of
\* onUploadComplete, with the expense of that response; a request that fails
\* makes none, and no other step calls it.
C1_CallbackOncePerSuccess ==
    [][/\ \A k \in 1 .. Len(inflight) :
             Settles(k) =>
                 completed' = IF inflight[k].out.kind \in {"ok", "okThrow"}
                              THEN Append(completed, inflight[k].out.payload)
                              ELSE completed
       /\ Len(inflight') >= Len(inflight) => completed' = completed]_vars

\* one upload succeeded with e2 and another failed: one call, with e2
C1_Witness ==
    /\ nUploads >= 2 /\ inflight = <<>>
    /\ completed = <<"e2">>

C3_FailureKeepsCapture ==
    [][/\ \A k \in 1 .. Len(inflight) :
             (Settles(k) /\ inflight[k].out.kind # "ok") =>
                 /\ audioBlob' = audioBlob /\ audioUrl' = audioUrl
                 /\ audioSource' = audioSource
                 /\ ~isLoading'
       /\ Len(inflight') > Len(inflight) =>
             (audioBlob' = audioBlob /\ audioUrl' = audioUrl /\ audioSource' = audioSource)]_vars

\* a 422 has been reported and the capture is still held, with its URL
C3_Witness ==
    /\ errorMessage = Message("unprocessable", "")
    /\ inflight = <<>> /\ ~isLoading
    /\ audioBlob # NoBlob /\ audioUrl # 0 /\ audioSource # "null"

\* C4: at most one POST is in flight.
C4_OneUploadInFlight == Len(inflight) <= 1

\* a second request is in flight after the first has settled
C4_Witness == Len(inflight) = 1 /\ nUploads >= 2

\* C5: at most one object URL is live; with no effect pending it is the URL of
\* the held capture, and none is live without a capture or after unmount.
C5_OneLiveUrl ==
    /\ Cardinality(liveUrls) <= 1
    /\ (mounted /\ Quiescent /\ audioBlob # NoBlob) => liveUrls = {audioUrl}
    /\ (mounted /\ Quiescent /\ audioBlob = NoBlob) => liveUrls = {}
    /\ ~mounted => liveUrls = {}

\* a held capture has just been replaced by a newly stopped recording: the
\* URL of the old one is still live and the effect for the new one is due
C5_Witness ==
    /\ audioBlob # NoBlob /\ audioBlob.origin = "recorded"
    /\ effBlob # 0 /\ audioBlob.id # effBlob
    /\ liveUrls = {effUrl}

\* C6 (as stated): the step of stopRecording that stops the recorder, and the
\* step of resetAudio, leave no stream open.
C6_StreamReleased ==
    [][((\E r \in DOMAIN recorders :
            recorders[r].state = "recording" /\ recorders'[r].state = "stopping")
        \/ (audioBlob # NoBlob /\ audioBlob' = NoBlob))
       => streams' = {}]_vars

\* C7 (as stated): the continuation of a failed decode sets an error message.
C7_DecodeFailureReported ==
    [][\A k \in 1 .. Len(decodes) :
          (decodes' = RemoveAt(decodes, k) /\ ~decodes[k].ok) =>
              errorMessage' # NoMessage]_vars

\* C8 (as stated): the catch of a rejected play() reports the error and
\* leaves isPlaying false.
C8_PlayFailureUnplayed ==
    [][playRejects' < playRejects =>
          (errorMessage' = Message("playback", "") /\ ~isPlaying')]_vars

SetMin(S) == CHOOSE x \in S : \A y \in S : x <= y
SetMax(S) == CHOOSE x \in S : \A y \in S : x >= y

\* the samples of the 0-based span [lo, lo + n) of data
SpanSamples(data, lo, n) == {data[k + 1] : k \in {j \in lo .. lo + n - 1 : j < Len(data)}}

\* C10 (as stated): W segments, segment i the (min, max) of the ceil(N/W)
\* samples of [i*step, i*step + step).
C10_EnvelopeFullSpans ==
    canvas.of # 0 =>
        LET data == audioBlob.data
            W == canvasWidth
            step == (Len(data) + W - 1) \div W
        IN  /\ Len(canvas.env) = W
            /\ \A i \in 0 .. W - 1 :
                  /\ i * step + step <= Len(data)
                  /\ canvas.env[i + 1] = <<SetMin(SpanSamples(data, i * step, step)),
                                           SetMax(SpanSamples(data, i * step, step))>>

\* C10 (amended): W segments; segment i is (min, max) over the initial values
\* 1.0 and -1.0 and the samples of [i*step, i*step + step) that exist, with
\* step = ceil(N/W); a span holds step samples when it ends within the N
\* samples and fewer (possibly none) when it does not.
C10_EnvelopeClippedSpans ==
    canvas.of # 0 =>
        LET data == audioBlob.data
            W == canvasWidth
            step == (Len(data) + W - 1) \div W
        IN  /\ Len(canvas.env) = W
            /\ \A i \in 0 .. W - 1 :
                  canvas.env[i + 1] =
                      <<SetMin({FullScale} \cup SpanSamples(data, i * step, step)),
                        SetMax({-FullScale} \cup SpanSamples(data, i * step, step))>>

\* three samples drawn on two columns: the second span holds one sample
C10_Witness ==
    /\ canvas.of # 0 /\ canvasWidth = 2 /\ Len(audioBlob.data) = 3
    /\ Cardinality(SpanSamples(audioBlob.data, 2, 2)) = 1

\* ---------------------------------------------------------------- C11
\* a getUserMedia promise of startRecording is rejected in this step
AcquisitionFails == gumPending' = gumPending - 1 /\ recorders' = recorders

Stops(r) ==
    /\ r \in DOMAIN recorders
    /\ recorders[r].state = "stopping" /\ recorders'[r].state = "inactive"

\* the payloads of the first n dataavailable events, in delivery order
RECURSIVE Delivered(_)
Delivered(n) == IF n = 0 THEN <<>> ELSE Delivered(n - 1) \o ChunkData(n)

\* C12: when a recording stops, the capture is the concatenation, in delivery
\* order, of every chunk delivered to the recorder since it started, its
\* origin is 'recorded', and isRecording is false
C12_CaptureIsAllChunks ==
    [][\A r \in 1 .. MaxBlobs :
          Stops(r) =>
             /\ audioBlob'.data = Delivered(Len(recorders[r].chunks))
             /\ audioBlob'.origin = "recorded" /\ audioSource' = "recorded"
             /\ ~isRecording']_vars

\* a capture recorded from several chunks is held
C12_Witness ==
    /\ audioBlob.origin = "recorded" /\ audioSource = "recorded" /\ ~isRecording
    /\ Len(audioBlob.data) >= 2

\* ---------------------------------------------------------------- C13
\* resetAudio runs in this step: nothing else discards the capture
Resets == audioBlob # NoBlob /\ audioBlob' = NoBlob

\* C13: after resetAudio playback is stopped and the widget is empty:
\* isPlaying is false, playbackPosition is 0, and no capture, URL or origin
\* is held; and it stays so for as long as no capture is held, whatever
\* events of the audio element were awaiting dispatch at the reset
C13_ResetEmpties ==
    [][/\ Resets => /\ ~isPlaying' /\ playbackPosition' = 0
                    /\ audioUrl' = 0 /\ audioSource' = "null"
                    /\ elPaused'
       /\ (audioBlob = NoBlob /\ audioBlob' = NoBlob) =>
              UNCHANGED <<isPlaying, playbackPosition, audioUrl, audioSource,
                          elPaused>>]_vars

\* just after a reset: the capture is gone and the cleanup of the effect that
\* made its URL has not run yet
C13_Witness ==
    /\ audioBlob = NoBlob /\ effBlob # 0 /\ blobCount > 0
    /\ ~isPlaying /\ playbackPosition = 0 /\ audioUrl = 0 /\ audioSource = "null"

\* ---------------------------------------------------------------- C14
\* the ended event of the audio element is dispatched in this step: it leaves
\* the queue while the element itself is not touched (a load or an unmount,
\* which empty the queue as well, rewind the element or end the component)
EndedDispatched ==
    /\ evq # <<>> /\ Head(evq) = "ended" /\ evq' = Tail(evq)
    /\ mounted' /\ UNCHANGED <<elPaused, elTime>>

\* C14: when playback reaches the natural end of the clip only isPlaying
\* changes, to false: playbackPosition keeps its value, and the capture, its
\* URL and its origin, like the rest of the widget's state, are unchanged
C14_EndOnlyStopsPlaying ==
    [][EndedDispatched =>
          /\ ~isPlaying'
          /\ UNCHANGED <<playbackPosition, audioBlob, audioUrl, audioSource,
                         isRecording, isLoading, errorMessage, canvas>>]_vars

\* the clip has played to its end and every event of the element has been
\* handled: the cursor rests at the right edge of the canvas
C14_Witness ==
    /\ audioBlob # NoBlob /\ audioUrl # 0
    /\ elTime = Dur /\ elPaused /\ evq = <<>>
    /\ ~isPlaying /\ playbackPosition = Dur * canvasWidth

\* ---------------------------------------------------------------- C15
\* C15: the widget is never both recording and holding a capture: in every
\* reachable state isRecording = true implies audioBlob = null
C15_RecordingHoldsNoCapture == isRecording => audioBlob = NoBlob

\* ---------------------------------------------------------------- C16
\* C16: at most one recorder is running and it is the one mediaRecorderRef
\* refers to, so that stopRecording can reach every started recorder
C16_RunningRecorderIsRef ==
    \A r \in DOMAIN recorders :
       recorders[r].state = "recording" => r = mediaRecorderRef

\* ---------------------------------------------------------------- C17
\* C17: once every pending decode has completed, the canvas is blank or shows
\* the envelope of the capture currently held, never that of a capture that
\* has been replaced or discarded
C17_CanvasShowsHeldCapture ==
    decodes = <<>> =>
       \/ canvas = BlankCanvas
       \/ /\ audioBlob # NoBlob /\ canvas.of = audioBlob.id
          /\ canvas.env = Envelope(audioBlob.data, canvasWidth)

\* ---------------------------------------------------------------- C18
\* C18: isLoading is true exactly while an upload request is outstanding: it
\* is true from the moment handleUpload issues the request and false again
\* as soon as the request has settled, whatever its outcome
C18_LoadingIffOutstanding == isLoading <=> inflight # <<>>

\* the host callback threw on a successful response (the callback was called
\* and the unexpected-error message is shown) and the control is available
C18_Witness ==
    /\ nUploads = 1 /\ inflight = <<>> /\ ~isLoading
    /\ completed # <<>> /\ errorMessage = Message("unexpected", "")

====
